---- MODULE Spec2Model ----
(***************************************************************************)
(* Model of scripts/configure_printer.py: the SharpPrinterConfigurator     *)
(* workflow (load config, start browser, login, fill the SMTP form, test   *)
(* and/or submit, close browser) against a browser whose element lookups   *)
(* and interactions may raise.  Strings that the program inspects          *)
(* (button texts, page text) are sequences of one-character strings, so    *)
(* that str.lower() and the substring operator are computed, not assumed.  *)
(* Screenshot capture (driver.save_screenshot) and driver.quit are taken   *)
(* to return normally; every other browser call may raise.                 *)
(***************************************************************************)
EXTENDS Integers, Sequences, FiniteSets, TLC

\* ---- bounds -------------------------------------------------------------
MaxWords    == 2   \* phrases in the page text read by test_connection
MaxButtons  == 2   \* <button> elements returned by find_elements
MaxPwFields == 3   \* input[type='password'] elements on the form

\* ---- text ----------------------------------------------------------------
UpperCase == <<"A", "B", "C", "D", "E", "F", "G", "H", "I", "J", "K", "L", "M", "N", "O", "P", "Q", "R", "S", "T", "U", "V", "W", "X", "Y", "Z">>
LowerCase == <<"a", "b", "c", "d", "e", "f", "g", "h", "i", "j", "k", "l", "m", "n", "o", "p", "q", "r", "s", "t", "u", "v", "w", "x", "y", "z">>

\* str.lower() on one character and on a string
lower_char(c) ==
  IF \E i \in 1..26 : UpperCase[i] = c
  THEN LowerCase[CHOOSE i \in 1..26 : UpperCase[i] = c]
  ELSE c
lower(s) == [i \in 1..Len(s) |-> lower_char(s[i])]

\* Python's  needle in hay  on strings
In(needle, hay) ==
  \E k \in 0..(Len(hay) - Len(needle)) :
     \A i \in 1..Len(needle) : hay[k + i] = needle[i]

\* literals of the program
S_ALL_TESTS_PASSED == <<"A", "L", "L", " ", "T", "E", "S", "T", "S", " ", "P", "A", "S", "S", "E", "D">>
S_SUCCESSFUL == <<"S", "U", "C", "C", "E", "S", "S", "F", "U", "L">>
S_FAILED == <<"F", "A", "I", "L", "E", "D">>
S_error == <<"e", "r", "r", "o", "r">>
S_test == <<"t", "e", "s", "t">>
S_submit == <<"s", "u", "b", "m", "i", "t">>

\* phrases the printer's page may show, and the button captions it may carry
P_Error == <<"E", "r", "r", "o", "r">>
P_Testing == <<"T", "e", "s", "t", "i", "n", "g">>
B_Test_Connection == <<"T", "e", "s", "t", " ", "C", "o", "n", "n", "e", "c", "t", "i", "o", "n">>
B_SUBMIT == <<"S", "U", "B", "M", "I", "T">>
B_Cancel == <<"C", "a", "n", "c", "e", "l">>
Vocabulary == {S_ALL_TESTS_PASSED, S_SUCCESSFUL, S_FAILED, P_Error, P_Testing}
ButtonTexts == {B_Test_Connection, B_SUBMIT, B_Cancel}

RECURSIVE Join(_)
Join(ws) ==
  IF Len(ws) = 0 THEN <<>>
  ELSE IF Len(ws) = 1 THEN ws[1]
  ELSE ws[1] \o <<" ">> \o Join(Tail(ws))

SeqsUpTo(S, n) == UNION {[1..k -> S] : k \in 0..n}
BodyTexts == {Join(ws) : ws \in SeqsUpTo(Vocabulary, MaxWords)}
ButtonLists == SeqsUpTo(ButtonTexts, MaxButtons)

\* ---- configuration -------------------------------------------------------
SettingsKeys == {"headless", "wait_timeout", "screenshot_on_failure"}
Restrict(f, D) == [k \in D |-> f[k]]

\* settings mappings: every subset of the optional keys may be present
SettingsMaps ==
  { Restrict(full, D) :
      full \in [headless : BOOLEAN, wait_timeout : {30},
                screenshot_on_failure : BOOLEAN],
      D \in SUBSET SettingsKeys }

Required == [target      |-> [url |-> "http://printer", username |-> "admin",
                              password |-> "loginpw"],
             smtp        |-> [gateway |-> "smtp.example.com", port |-> 587],
             credentials |-> [userid |-> "scan@example.com",
                              password |-> "devpw"]]

\* parsed YAML documents holding the required keys, with or without a
\* settings mapping
Configs ==
  { [k \in DOMAIN Required \cup {"settings"} |->
        IF k = "settings" THEN s ELSE Required[k]] : s \in SettingsMaps }
  \cup {Required}

\* dict.get(key, default)
get(d, k, default) == IF k \in DOMAIN d THEN d[k] ELSE default

\* ---- state ---------------------------------------------------------------
VARIABLES
  pc,            \* position of the process
  test_only,     \* args.test_only
  skip_test,     \* args.skip_test
  config_exists, \* whether args.config names an existing file
  config,        \* self.config (<<>> before it is loaded)
  driver,        \* self.driver: "None" or "Chrome"
  headless_opt,  \* whether --headless was added to the Chrome options
  implicit_wait, \* driver.implicitly_wait value (0: never set)
  shots,         \* labels of the screenshots saved, in order
  calls,         \* methods invoked on the configurator/driver, in order
  raised,        \* workflow steps out of which an exception propagated
  pending,       \* exception in flight inside run()
  propagated,    \* exception that left run()
  exit_status,   \* process exit status (-1 while running)
  test_result,   \* value returned by test_connection
  body_text,     \* test_connection's local  body_text
  buttons,       \* submit_configuration's local  buttons
  clicks,        \* captions of the buttons clicked, in order
  pw_count,      \* len(all_password_fields) (-1: not looked up)
  pw_fields,     \* values of the password inputs of the form
  log            \* console messages printed (tags)

vars == <<pc, test_only, skip_test, config_exists, config, driver,
          headless_opt, implicit_wait, shots, calls, raised, pending,
          propagated, exit_status, test_result, body_text, buttons, clicks,
          pw_count, pw_fields, log>>

Exceptions == {"KeyError", "StepError"}   \* subclasses of Exception

Init ==
  /\ pc = "main"
  /\ test_only = FALSE /\ skip_test = FALSE /\ config_exists = FALSE
  /\ config = <<>>
  /\ driver = "None"
  /\ headless_opt = FALSE /\ implicit_wait = 0
  /\ shots = <<>> /\ calls = <<>> /\ raised = <<>>
  /\ pending = "none" /\ propagated = "none"
  /\ exit_status = -1
  /\ test_result = "unset"
  /\ body_text = <<>> /\ buttons = <<>> /\ clicks = <<>>
  /\ pw_count = -1 /\ pw_fields = <<>>
  /\ log = {}

\* ---- helpers of the class -------------------------------------------------
\* variant: a missing file is reported but the constructor carries on with None
_load_config_no_exit(exists, doc) ==
  [exit |-> FALSE, value |-> IF exists THEN doc ELSE <<>>]

\* _load_config: the parsed document, or exit(1) when the file is missing
_load_config(exists, doc) ==
  IF exists THEN [exit |-> FALSE, value |-> doc]
  ELSE [exit |-> TRUE, value |-> <<>>]

\* _take_screenshot: saves only while a driver exists
_take_screenshot(d, sh, name) ==
  IF d # "None" THEN Append(sh, name) ELSE sh

\* index of the first button whose lower-cased text contains the needle (0: none)
first_button(bs, needle) ==
  IF \E i \in 1..Len(bs) : In(needle, lower(bs[i]))
  THEN CHOOSE i \in 1..Len(bs) :
         /\ In(needle, lower(bs[i]))
         /\ \A j \in 1..(i - 1) : ~ In(needle, lower(bs[j]))
  ELSE 0

\* classification of the page text by test_connection
classify(text) ==
  IF In(S_ALL_TESTS_PASSED, text) \/ In(S_SUCCESSFUL, text)
  THEN [result |-> "True", shot |-> "03_test_success", msg |-> "test_passed"]
  ELSE IF In(S_FAILED, text) \/ In(S_error, lower(text))
  THEN [result |-> "False", shot |-> "03_test_failed", msg |-> "test_failed"]
  ELSE [result |-> "None", shot |-> "03_test_unknown", msg |-> "test_unclear"]

\* variant: only an explicit False blocks the submit (None passes)
truthy_not_false(r) == r # "False"

\* truth value of test_connection's result in  if test_result:
truthy(r) == r = "True"

\* variant: the first password input is taken
device_password_field_first(n) == IF n >= 1 THEN 1 ELSE 0

\* index of the password input that receives the device password (0: none)
device_password_field(n) ==
  IF n >= 2 THEN n
  ELSE IF n = 1 THEN 1
  ELSE 0

\* variant: skip_test is tested before test_only
mode_skip_first(t, s) ==
  IF s THEN "skip_test"
  ELSE IF t THEN "test_only"
  ELSE "default"

\* variant: the skip_test branch is missing
mode_no_skip(t, s) == IF t THEN "test_only" ELSE "default"

\* branch of run() selected by the flags
mode(t, s) ==
  IF t THEN "test_only"
  ELSE IF s THEN "skip_test"
  ELSE "default"

\* ---- main and __init__ -----------------------------------------------------
main ==
  /\ pc = "main"
  /\ \E t \in BOOLEAN, s \in BOOLEAN, exists \in BOOLEAN, doc \in Configs :
       LET r == _load_config(exists, doc) IN
         /\ test_only' = t
         /\ skip_test' = s
         /\ config_exists' = exists
         /\ IF r.exit
            THEN /\ log' = log \cup {"config_not_found"}
                 /\ exit_status' = 1
                 /\ pc' = "done"
                 /\ UNCHANGED config
            ELSE /\ config' = r.value
                 /\ pc' = "setup_driver"
                 /\ UNCHANGED <<log, exit_status>>
  /\ UNCHANGED <<driver, headless_opt, implicit_wait, shots, calls, raised,
                 pending, propagated, test_result, body_text, buttons,
                 clicks, pw_count, pw_fields>>

\* ---- run(): setup_driver ---------------------------------------------------
setup_driver ==
  /\ pc = "setup_driver"
  /\ calls' = Append(calls, "setup_driver")
  /\ IF "settings" \notin DOMAIN config
     THEN \* config['settings'] raises KeyError before the driver is created
          /\ pending' = "KeyError"
          /\ pc' = "except"
          /\ UNCHANGED <<driver, headless_opt, implicit_wait, log>>
     ELSE /\ headless_opt' = get(config["settings"], "headless", FALSE)
          /\ \E outcome \in {"ok", "chrome_fail", "wait_fail"} :
               CASE outcome = "ok" ->
                      /\ driver' = "Chrome"
                      /\ implicit_wait' =
                           get(config["settings"], "wait_timeout", 10)
                      /\ log' = log \cup {"webdriver_initialized"}
                      /\ pc' = "login"
                      /\ UNCHANGED pending
                 [] outcome = "chrome_fail" ->
                      \* webdriver.Chrome raised: exit(1) with no driver
                      /\ log' = log \cup {"webdriver_failed"}
                      /\ pending' = "SystemExit"
                      /\ pc' = "finally"
                      /\ UNCHANGED <<driver, implicit_wait>>
                 [] outcome = "wait_fail" ->
                      \* implicitly_wait raised: exit(1) with the driver set
                      /\ driver' = "Chrome"
                      /\ log' = log \cup {"webdriver_failed"}
                      /\ pending' = "SystemExit"
                      /\ pc' = "finally"
                      /\ UNCHANGED implicit_wait
  /\ UNCHANGED <<test_only, skip_test, config_exists, config, shots, raised,
                 propagated, exit_status, test_result, body_text, buttons,
                 clicks, pw_count, pw_fields>>

\* ---- login ------------------------------------------------------------------
\* variant: the handler logs and screenshots but does not re-raise
login_swallow ==
  /\ pc = "login"
  /\ calls' = Append(calls, "login")
  /\ \E ok \in BOOLEAN :
       /\ log' = log \cup {IF ok THEN "logged_in" ELSE "login_failed"}
       /\ shots' = _take_screenshot(driver, shots,
                       IF ok THEN "01_logged_in" ELSE "error_login_failed")
       /\ pc' = "configure_smtp"
  /\ UNCHANGED <<test_only, skip_test, config_exists, config, driver,
                 headless_opt, implicit_wait, propagated, exit_status,
                 test_result, body_text, buttons, clicks, pw_count,
                 pw_fields, pending, raised>>

login ==
  /\ pc = "login"
  /\ calls' = Append(calls, "login")
  /\ \E ok \in BOOLEAN :
       IF ok
       THEN /\ log' = log \cup {"logged_in"}
            /\ shots' = _take_screenshot(driver, shots, "01_logged_in")
            /\ pc' = "configure_smtp"
            /\ UNCHANGED <<pending, raised>>
       ELSE /\ log' = log \cup {"login_failed"}
            /\ shots' = _take_screenshot(driver, shots, "error_login_failed")
            /\ pending' = "StepError"
            /\ raised' = Append(raised, "login")
            /\ pc' = "except"
  /\ UNCHANGED <<test_only, skip_test, config_exists, config, driver,
                 headless_opt, implicit_wait, propagated, exit_status,
                 test_result, body_text, buttons, clicks, pw_count,
                 pw_fields>>

\* ---- configure_smtp ---------------------------------------------------------
PwFaults == {"none", "find", "clear", "send_keys"}

configure_smtp ==
  /\ pc = "configure_smtp"
  /\ calls' = Append(calls, "configure_smtp")
  /\ \E pre_ok \in BOOLEAN :
       IF ~ pre_ok
       THEN \* a lookup or write of gateway .. userid raised
            /\ log' = log \cup {"configuration_failed"}
            /\ shots' = _take_screenshot(driver, shots, "error_config_failed")
            /\ pending' = "StepError"
            /\ raised' = Append(raised, "configure_smtp")
            /\ pc' = "except"
            /\ UNCHANGED <<pw_count, pw_fields>>
       ELSE \E n \in 0..MaxPwFields, fault \in PwFaults :
              LET before == [i \in 1..n |-> "old"]
                  k      == device_password_field(n)
              IN
                /\ IF fault = "find"
                   THEN /\ UNCHANGED <<pw_count, pw_fields>>
                        /\ log' = log \cup {"pw_warning_exception", "smtp_filled"}
                   ELSE
                     /\ pw_count' = n
                     /\ IF k = 0
                        THEN /\ pw_fields' = before
                             /\ log' = log \cup {"pw_warning_not_found", "smtp_filled"}
                        ELSE CASE fault = "clear" ->
                                    /\ pw_fields' = before
                                    /\ log' = log \cup {"pw_warning_exception", "smtp_filled"}
                               [] fault = "send_keys" ->
                                    \* cleared, then send_keys raised
                                    /\ pw_fields' = [before EXCEPT ![k] = ""]
                                    /\ log' = log \cup {"pw_warning_exception", "smtp_filled"}
                               [] OTHER ->
                                    /\ pw_fields' = [before EXCEPT ![k] =
                                           config["credentials"]["password"]]
                                    /\ log' = log \cup {"pw_ok", "smtp_filled"}
                /\ shots' = _take_screenshot(driver, shots, "02_config_filled")
                /\ pc' = "branch"
                /\ UNCHANGED <<pending, raised>>
  /\ UNCHANGED <<test_only, skip_test, config_exists, config, driver,
                 headless_opt, implicit_wait, propagated, exit_status,
                 test_result, body_text, buttons, clicks>>

\* ---- run(): selection of the branch ------------------------------------------
run_branch ==
  /\ pc = "branch"
  /\ CASE mode(test_only, skip_test) = "test_only" ->
            /\ log' = log \cup {"test_mode"}
            /\ pc' = "test_connection"
       [] mode(test_only, skip_test) = "skip_test" ->
            /\ log' = log \cup {"skipping_test"}
            /\ pc' = "submit_configuration"
       [] OTHER ->
            /\ pc' = "test_connection"
            /\ UNCHANGED log
  /\ UNCHANGED <<test_only, skip_test, config_exists, config, driver,
                 headless_opt, implicit_wait, shots, calls, raised, pending,
                 propagated, exit_status, test_result, body_text, buttons,
                 clicks, pw_count, pw_fields>>

\* ---- test_connection ---------------------------------------------------------
\* look the buttons up and click the first "test" one; an exception is
\* caught inside test_connection, which then screenshots and returns False
test_connection ==
  /\ pc = "test_connection"
  /\ calls' = Append(calls, "test_connection")
  /\ \/ \* find_elements raised
        /\ UNCHANGED clicks
        /\ log' = log \cup {"test_connection_failed"}
        /\ shots' = _take_screenshot(driver, shots, "error_test_failed")
        /\ test_result' = "False"
        /\ pc' = "after_test"
     \/ \E bs \in ButtonLists :
          LET i == first_button(bs, S_test) IN
            \/ \* button.click() raised
               /\ i > 0
               /\ UNCHANGED clicks
               /\ log' = log \cup {"test_connection_failed"}
               /\ shots' = _take_screenshot(driver, shots, "error_test_failed")
               /\ test_result' = "False"
               /\ pc' = "after_test"
            \/ /\ clicks' = IF i > 0 THEN Append(clicks, bs[i]) ELSE clicks
               /\ pc' = "test_read"
               /\ UNCHANGED <<log, shots, test_result>>
  /\ UNCHANGED <<test_only, skip_test, config_exists, config, driver,
                 headless_opt, implicit_wait, raised, pending, propagated,
                 exit_status, body_text, buttons, pw_count, pw_fields>>

\* after the wait: read the text of <body>; a failure is caught as above
test_read ==
  /\ pc = "test_read"
  /\ \/ /\ log' = log \cup {"test_connection_failed"}
        /\ shots' = _take_screenshot(driver, shots, "error_test_failed")
        /\ test_result' = "False"
        /\ pc' = "after_test"
        /\ UNCHANGED body_text
     \/ \E text \in BodyTexts :
          /\ body_text' = text
          /\ pc' = "test_classify"
          /\ UNCHANGED <<log, shots, test_result>>
  /\ UNCHANGED <<test_only, skip_test, config_exists, config, driver,
                 headless_opt, implicit_wait, calls, raised, pending,
                 propagated, exit_status, buttons, clicks, pw_count,
                 pw_fields>>

\* classify the page text, screenshot and return (body_text is a local)
test_classify ==
  /\ pc = "test_classify"
  /\ log' = log \cup {classify(body_text).msg}
  /\ shots' = _take_screenshot(driver, shots, classify(body_text).shot)
  /\ test_result' = classify(body_text).result
  /\ body_text' = <<>>
  /\ pc' = "after_test"
  /\ UNCHANGED <<test_only, skip_test, config_exists, config, driver,
                 headless_opt, implicit_wait, calls, raised, pending,
                 propagated, exit_status, buttons, clicks, pw_count,
                 pw_fields>>

\* ---- run(): after test_connection returned -------------------------------------
run_after_test ==
  /\ pc = "after_test"
  /\ IF mode(test_only, skip_test) = "test_only"
     THEN /\ pc' = "finally"
          /\ UNCHANGED log
     ELSE IF truthy(test_result)
          THEN /\ pc' = "submit_configuration"
               /\ UNCHANGED log
          ELSE /\ log' = log \cup {"filled_not_submitted"}
               /\ pc' = "finally"
  /\ UNCHANGED <<test_only, skip_test, config_exists, config, driver,
                 headless_opt, implicit_wait, shots, calls, raised, pending,
                 propagated, exit_status, test_result, body_text, buttons,
                 clicks, pw_count, pw_fields>>

\* ---- submit_configuration ------------------------------------------------------
\* look the buttons up and click the first "submit" one; an exception is
\* logged, screenshotted and re-raised
submit_configuration ==
  /\ pc = "submit_configuration"
  /\ calls' = Append(calls, "submit_configuration")
  /\ \/ \* find_elements raised
        /\ log' = log \cup {"submit_failed"}
        /\ shots' = _take_screenshot(driver, shots, "error_submit_failed")
        /\ pending' = "StepError"
        /\ raised' = Append(raised, "submit_configuration")
        /\ pc' = "except"
        /\ UNCHANGED <<buttons, clicks>>
     \/ \E bs \in ButtonLists :
          LET i == first_button(bs, S_submit) IN
            \/ \* button.click() raised
               /\ i > 0
               /\ log' = log \cup {"submit_failed"}
               /\ shots' = _take_screenshot(driver, shots, "error_submit_failed")
               /\ pending' = "StepError"
               /\ raised' = Append(raised, "submit_configuration")
               /\ pc' = "except"
               /\ UNCHANGED <<buttons, clicks>>
            \/ /\ buttons' = bs
               /\ clicks' = IF i > 0 THEN Append(clicks, bs[i]) ELSE clicks
               /\ pc' = "submit_report"
               /\ UNCHANGED <<log, shots, pending, raised>>
  /\ UNCHANGED <<test_only, skip_test, config_exists, config, driver,
                 headless_opt, implicit_wait, propagated, exit_status,
                 test_result, body_text, pw_count, pw_fields>>

\* after the loop: checkpoint screenshot and success message (buttons is a local)
submit_report ==
  /\ pc = "submit_report"
  /\ shots' = _take_screenshot(driver, shots, "04_submitted")
  /\ log' = log \cup {"submitted"}
  /\ buttons' = <<>>
  /\ pc' = "after_submit"
  /\ UNCHANGED <<test_only, skip_test, config_exists, config, driver,
                 headless_opt, implicit_wait, calls, raised, pending,
                 propagated, exit_status, test_result, body_text, clicks,
                 pw_count, pw_fields>>

\* ---- run(): after submit_configuration returned --------------------------------
run_after_submit ==
  /\ pc = "after_submit"
  /\ log' = log \cup {IF mode(test_only, skip_test) = "skip_test"
                      THEN "submitted_without_test" ELSE "completed"}
  /\ pc' = "finally"
  /\ UNCHANGED <<test_only, skip_test, config_exists, config, driver,
                 headless_opt, implicit_wait, shots, calls, raised, pending,
                 propagated, exit_status, test_result, body_text, buttons,
                 clicks, pw_count, pw_fields>>

\* ---- run(): except Exception ----------------------------------------------------
run_except ==
  /\ pc = "except"
  /\ pending \in Exceptions
  /\ IF "settings" \notin DOMAIN config
     THEN \* config['settings'] raises KeyError inside the handler
          /\ pending' = "KeyError"
          /\ UNCHANGED shots
     ELSE /\ pending' = "none"
          /\ shots' = IF get(config["settings"], "screenshot_on_failure", TRUE)
                      THEN _take_screenshot(driver, shots, "error_final")
                      ELSE shots
  /\ log' = log \cup {"automation_failed"}
  /\ pc' = "finally"
  /\ UNCHANGED <<test_only, skip_test, config_exists, config, driver,
                 headless_opt, implicit_wait, calls, raised, propagated,
                 exit_status, test_result, body_text, buttons, clicks,
                 pw_count, pw_fields>>

\* ---- run(): finally, then the process ends ----------------------------------------
\* variant: the session is closed at the end of the try body, not in finally
run_finally_leak ==
  /\ pc = "finally"
  /\ IF driver # "None" /\ pending = "none" /\ "automation_failed" \notin log
     THEN /\ calls' = Append(calls, "quit")
          /\ log' = log \cup {"browser_closed"}
     ELSE UNCHANGED <<calls, log>>
  /\ propagated' = pending
  /\ exit_status' = IF pending = "none" THEN 0 ELSE 1
  /\ pc' = "done"
  /\ UNCHANGED <<test_only, skip_test, config_exists, config, driver,
                 headless_opt, implicit_wait, shots, raised, pending,
                 test_result, body_text, buttons, clicks, pw_count,
                 pw_fields>>

run_finally ==
  /\ pc = "finally"
  /\ IF driver # "None"
     THEN /\ calls' = Append(calls, "quit")
          /\ log' = log \cup {"browser_closed"}
     ELSE UNCHANGED <<calls, log>>
  /\ propagated' = pending
  /\ exit_status' = IF pending = "none" THEN 0 ELSE 1
  /\ pc' = "done"
  /\ UNCHANGED <<test_only, skip_test, config_exists, config, driver,
                 headless_opt, implicit_wait, shots, raised, pending,
                 test_result, body_text, buttons, clicks, pw_count,
                 pw_fields>>

Next ==
  \/ main
  \/ setup_driver
  \/ login
  \/ configure_smtp
  \/ run_branch
  \/ test_connection
  \/ test_read
  \/ test_classify
  \/ run_after_test
  \/ submit_configuration
  \/ submit_report
  \/ run_after_submit
  \/ run_except
  \/ run_finally

Spec == Init /\ [][Next]_vars

\* ---- properties -------------------------------------------------------------
Range(q) == {q[i] : i \in 1..Len(q)}
Count(q, x) == Cardinality({i \in 1..Len(q) : q[i] = x})

Rank(step) ==
  CASE step = "setup_driver" -> 0
    [] step = "login" -> 1
    [] step = "configure_smtp" -> 2
    [] step = "test_connection" -> 3
    [] step = "submit_configuration" -> 4
    [] step = "quit" -> 5

ErrShot(step) ==
  CASE step = "login" -> "error_login_failed"
    [] step = "configure_smtp" -> "error_config_failed"
    [] step = "submit_configuration" -> "error_submit_failed"

\* C1: driver.quit runs exactly once in every run whose session was started,
\* after every other step of the run, whichever step raised; it never runs
\* when the session was not started.
C1_TeardownOnce ==
  /\ \A i \in 1..Len(calls) : calls[i] = "quit" => i = Len(calls)
  /\ pc = "done" =>
        Count(calls, "quit") = IF driver # "None" THEN 1 ELSE 0

C1_Witness ==
  /\ pc = "done"
  /\ "submit_configuration" \in Range(raised)
  /\ calls[Len(calls)] = "quit"

\* C2: with neither flag set, submit_configuration is invoked only after
\* test_connection returned True; after False or None the run ends without a
\* submit, reports filled-but-not-submitted and does not fail.
C2_SubmitOnlyAfterPass ==
  (~ test_only /\ ~ skip_test) =>
     /\ "submit_configuration" \in Range(calls) => test_result = "True"
     /\ (pc = "done" /\ test_result \in {"False", "None"}) =>
           /\ "submit_configuration" \notin Range(calls)
           /\ "filled_not_submitted" \in log
           /\ "automation_failed" \notin log
           /\ propagated = "none"
           /\ exit_status = 0

C2_Witness ==
  /\ pc = "done" /\ ~ test_only /\ ~ skip_test
  /\ test_result = "None"
  /\ "filled_not_submitted" \in log

\* C3 as stated: every run with skip_test set that reaches the mode branch
\* invokes submit_configuration exactly once and never test_connection.
C3_Original ==
  (pc = "done" /\ skip_test /\ "02_config_filled" \in Range(shots)) =>
     /\ Count(calls, "submit_configuration") = 1
     /\ "test_connection" \notin Range(calls)

\* C3 amended: with skip_test set and test_only not set, test_connection is
\* never invoked, submit_configuration is invoked at most once, and exactly
\* once in every run whose login and configure_smtp completed.
C3_SkipTestSubmitsOnce ==
  (skip_test /\ ~ test_only) =>
     /\ "test_connection" \notin Range(calls)
     /\ Count(calls, "submit_configuration") <= 1
     /\ (pc = "done" /\ "02_config_filled" \in Range(shots)) =>
           Count(calls, "submit_configuration") = 1

C3_Witness ==
  /\ pc = "done" /\ skip_test /\ ~ test_only
  /\ "submitted_without_test" \in log
  /\ Count(calls, "submit_configuration") = 1

\* C4: with test_only set, submit_configuration is never invoked whatever the
\* test returns and whatever skip_test is; the run takes the test-only
\* branch and no other.
C4_TestOnlyNeverSubmits ==
  /\ ~ ("test_mode" \in log /\ "skipping_test" \in log)
  /\ test_only =>
       /\ "submit_configuration" \notin Range(calls)
       /\ "skipping_test" \notin log
       /\ (pc = "done" /\ "02_config_filled" \in Range(shots)) =>
             /\ Count(calls, "test_connection") = 1
             /\ "test_mode" \in log

C4_Witness ==
  /\ pc = "done" /\ test_only /\ skip_test
  /\ test_result = "True"

\* C5 as stated: whenever the page text read by test_connection contains
\* "FAILED", test_connection returns False and saves "03_test_failed".
C5_FailedTextFails ==
  [][(pc = "test_classify" /\ In(S_FAILED, body_text)) =>
        (test_result' = "False" /\ shots' = Append(shots, "03_test_failed"))]_vars

\* C6: configure_smtp writes the device password to at most one password
\* input, always the last one; with no password input nothing is written, a
\* warning is logged and the step still reaches "02_config_filled".
C6_LastPasswordField ==
  /\ Cardinality({i \in 1..Len(pw_fields) :
                    pw_fields[i] = Required["credentials"]["password"]}) <= 1
  /\ \A i \in 1..Len(pw_fields) : pw_fields[i] # "old" => i = Len(pw_fields)
  /\ "pw_ok" \in log =>
        /\ Len(pw_fields) >= 1
        /\ pw_fields[Len(pw_fields)] = Required["credentials"]["password"]
  /\ pw_count = 0 =>
        /\ pw_fields = <<>>
        /\ "pw_warning_not_found" \in log
        /\ "02_config_filled" \in Range(shots)
        /\ "error_config_failed" \notin Range(shots)
        /\ "configure_smtp" \notin Range(raised)

C6_Witness ==
  /\ pw_count = 2
  /\ pw_fields = <<"old", Required["credentials"]["password"]>>

\* C7: when the configuration file does not exist the process ends with
\* status 1 in the constructor: no browser session, no workflow step and no
\* screenshot.
C7_MissingConfigExits ==
  (pc # "main" /\ ~ config_exists) =>
     /\ pc = "done"
     /\ exit_status = 1
     /\ "config_not_found" \in log
     /\ driver = "None"
     /\ calls = <<>>
     /\ shots = <<>>

C7_Witness ==
  /\ pc = "done" /\ ~ config_exists /\ exit_status = 1

\* C8 as stated: for every configuration holding the required keys, no
\* exception leaves run(); a caught one is logged, "error_final" is saved
\* exactly when screenshot_on_failure is enabled (default true), and the
\* session is closed.
ScreenshotOnFailure ==
  IF "settings" \in DOMAIN config
  THEN get(config["settings"], "screenshot_on_failure", TRUE)
  ELSE TRUE

C8_NoExceptionLeavesRun ==
  (pc = "done" /\ config_exists) =>
     /\ propagated \notin Exceptions
     /\ "automation_failed" \in log =>
           /\ ("error_final" \in Range(shots)) <=> ScreenshotOnFailure
           /\ calls[Len(calls)] = "quit"

\* C9: steps are invoked in the order login, configure_smtp, test, submit,
\* each at most once; a step that fails saves its own error screenshot
\* before "error_final", its exception reaches the top-level handler, and no
\* later workflow step is invoked.
C9_FailureAborts ==
  /\ \A i, j \in 1..Len(calls) : i < j => Rank(calls[i]) < Rank(calls[j])
  /\ Len(raised) <= 1
  /\ \A st \in {"login", "configure_smtp", "submit_configuration"} :
       /\ st \in Range(raised) => ErrShot(st) \in Range(shots)
       /\ ErrShot(st) \in Range(shots) =>
            /\ st \in Range(raised)
            /\ pc = "except" \/ "automation_failed" \in log
            /\ \A i \in 1..Len(calls) :
                 Rank(calls[i]) > Rank(st) => calls[i] = "quit"
            /\ \A i, j \in 1..Len(shots) :
                 (shots[i] = ErrShot(st) /\ shots[j] = "error_final") => i < j

C9_Witness ==
  /\ pc = "done"
  /\ raised = <<"configure_smtp">>
  /\ "error_final" \in Range(shots)

\* C10 as stated: a run that reports the submit ("04_submitted" and the
\* success message) clicked exactly one button whose text contains "submit";
\* without such a button the submit step does not get to its report.
C10_SubmittedMeansClicked ==
  /\ pc = "submit_report" => first_button(buttons, S_submit) > 0
  /\ ("04_submitted" \in Range(shots) /\ "submitted" \in log) =>
        Cardinality({i \in 1..Len(clicks) : In(S_submit, lower(clicks[i]))}) = 1
====
